---- MODULE Spec2Model ----
(***************************************************************************)
(* Rainier CNI plugin: the interface lifecycle of cmdAdd / cmdDel / cmdGet *)
(* and the persisted container -> host-interface mapping kept in           *)
(* /tmp/rainier.json.                                                      *)
(*                                                                         *)
(* The repository holds two revisions of the plugin:                       *)
(*   "basic"  src/rainier.go          (no IPAM, unchecked type assertion)  *)
(*   "ipam"   src/unnamed/part_001    (IPAM delegate, nil check in cmdDel) *)
(* One of them is installed on the host (variable binary); every           *)
(* invocation is a separate short-lived process running that binary.       *)
(* Processes interleave at their external operations: switch commands,     *)
(* link creation, delegate calls, and the reads and writes of the file.    *)
(***************************************************************************)
EXTENDS Integers, Sequences, FiniteSets, TLC

\* ------------------------------------------------------------------ bounds
\* Largest number of IP entries the IPAM delegate returns.
MaxIPs == 1
\* Invocations of the plugin the container runtime makes in one run.
MaxInvocations == 2
\* External operations (switch, kernel, delegate, file I/O) that fail in one run.
MaxFaults == 1

Procs        == {1, 2}          \* process slots: at most two live invocations
ContainerIDs == {1, 2}          \* args.ContainerID ("c1", "c2"), ordered as JSON keys
\* host-side interface names: one per container set up earlier and one per
\* invocation, so the kernel never runs out of names
IfNames      == 1..(Cardinality(ContainerIDs) + MaxInvocations)
BridgeNames  == {"br0"}         \* config.PublicBridgeName values that decode
\* config.PublicBridgeName when stdin decodes but "publicBridgeName" is
\* absent or empty: the field keeps Go's zero value
EmptyName    == ""
BadConfig    == "undecodable"   \* stdin that json.Unmarshal rejects
Configs      == BridgeNames \cup {EmptyName, BadConfig}

NoIf     == 0                   \* no host interface created yet
NoOwner  == 0                   \* link name not in use
NoBridge == "none"              \* interface is not a port of any bridge
NilIndex == -1                  \* IPConfig.Interface = nil

Terminal == {"idle", "done", "failed", "panicked"}

VARIABLES
    binary,        \* which revision is installed: "basic" | "ipam"
    netconf,       \* the network configuration the runtime hands to the plugin
    file,          \* /tmp/rainier.json: [exists, valid, pairs]
    bridges,       \* OVS bridges that exist
    ports,         \* host interface -> bridge it is a port of, or NoBridge
    linkOwner,     \* host interface -> container whose ADD created the pair
    everAttached,  \* host interfaces that AddPort has attached at some time
    pc,            \* per process: position in cmdAdd / cmdDel
    cmd,           \* per process: "ADD" | "DEL" | "GET"
    cid,           \* per process: args.ContainerID
    cfg,           \* per process: decoded stdin (bridge name) or BadConfig
    hostIf,        \* per process: hostInterface.Name / hostIfName
    mem,           \* per process: the global map hostInterfaces
    ips,           \* per process: result.IPs as the sequence of Interface indices
    calls,         \* per process: external operations issued, with outcome
    alone,         \* per process: no other invocation was live since it started
    before,        \* per process: file content when the invocation started
    prev,          \* the ADD that ran alone and returned just before the
                   \* latest invocation started (NoPrev when there is none)
    started,       \* number of invocations made so far
    faults         \* number of external operations that have failed so far

vars == <<binary, netconf, file, bridges, ports, linkOwner, everAttached,
          pc, cmd, cid, cfg, hostIf, mem, ips, calls, alone, before, prev,
          started, faults>>

switchVars == <<bridges, ports, everAttached>>
linkVars   == <<linkOwner>>
argVars    == <<binary, netconf, cmd, cid, cfg, alone, before, prev, started>>

\* ------------------------------------------------------- pure operators
EmptyMap == [c \in {} |-> NoIf]

NoFile   == [exists |-> FALSE, valid |-> FALSE, pairs |-> <<>>]
\* The file right after O_TRUNC, or after a write that failed part-way.
TruncatedFile == [exists |-> TRUE, valid |-> FALSE, pairs |-> <<>>]

Min(S) == CHOOSE x \in S : \A y \in S : x <= y

RECURSIVE SortedSeq(_)
SortedSeq(S) == IF S = {} THEN <<>>
                ELSE <<Min(S)>> \o SortedSeq(S \ {Min(S)})

\* Mutant of Marshal: only the first member of the object is written.
MarshalFirstKey(m) ==
    LET keys == SortedSeq(DOMAIN m)
    IN  [exists |-> TRUE, valid |-> TRUE,
         pairs  |-> [i \in 1..Min({1, Len(keys)}) |-> <<keys[i], m[keys[i]]>>]]

\* json.Marshal of map[string]interface{}: one object, keys in sorted order.
Marshal(m) ==
    LET keys == SortedSeq(DOMAIN m)
    IN  [exists |-> TRUE, valid |-> TRUE,
         pairs  |-> [i \in 1..Len(keys) |-> <<keys[i], m[keys[i]]>>]]

\* json.Unmarshal(bytes, &hostInterfaces): a syntax error leaves the map
\* untouched; otherwise the object's members are stored INTO the map.
Unmarshal(f, m) ==
    IF ~f.valid THEN [err |-> TRUE, m |-> m]
    ELSE LET ks == {f.pairs[i][1] : i \in 1..Len(f.pairs)}
             val(k) == LET i == CHOOSE j \in 1..Len(f.pairs) :
                                   /\ f.pairs[j][1] = k
                                   /\ \A l \in 1..Len(f.pairs) :
                                          f.pairs[l][1] = k => l <= j
                       IN f.pairs[i][2]
         IN [err |-> FALSE,
             m   |-> [k \in (DOMAIN m) \cup ks |->
                          IF k \in ks THEN val(k) ELSE m[k]]]

\* Mutant of Put: the map is replaced by the single new entry.
PutAlone(m, c, h) == [k \in {c} |-> h]

\* Mutant of Put: a key that is in the map already keeps its value.
PutIfAbsent(m, c, h) == [k \in (DOMAIN m) \cup {c} |->
                            IF k \in DOMAIN m THEN m[k] ELSE h]

\* hostInterfaces[args.ContainerID] = hostInterface.Name
Put(m, c, h) == [k \in (DOMAIN m) \cup {c} |-> IF k = c THEN h ELSE m[k]]

\* Mutant of Delete: the key stays in the map.
DeleteNone(m, c) == m

\* delete(hostInterfaces, args.ContainerID)
Delete(m, c) == [k \in (DOMAIN m) \ {c} |-> m[k]]

\* hostInterfaces[args.ContainerID]: NoIf stands for the nil interface value
Lookup(m, c) == IF c \in DOMAIN m THEN m[c] ELSE NoIf

\* The mapping a fresh Load would see in file content f.
Store(f) == IF f.exists /\ f.valid THEN Unmarshal(f, EmptyMap).m ELSE EmptyMap

HasEntry(f, c) == c \in DOMAIN Store(f)

Call(p, op, res) == [calls EXCEPT ![p] = Append(@, [op |-> op, res |-> res])]

Called(p, op)         == \E i \in 1..Len(calls[p]) : calls[p][i].op = op
CalledRes(p, op, res) == \E i \in 1..Len(calls[p]) :
                              calls[p][i].op = op /\ calls[p][i].res = res

Live(p) == pc[p] \notin Terminal

\* What the container runtime has seen of an ADD that returned.
NoPrev == [cmd |-> "GET", cid |-> 1, cfg |-> BadConfig, pc |-> "idle",
           hostIf |-> NoIf, attached |-> FALSE, before |-> NoFile]

Returned(q) == [cmd |-> cmd[q], cid |-> cid[q], cfg |-> cfg[q], pc |-> pc[q],
                hostIf |-> hostIf[q],
                attached |-> CalledRes(q, "AddPort", "ok"),
                before |-> before[q]]

\* ------------------------------------------------------------------ Init
\* The host when the run starts: either revision is installed, and the
\* containers of S (none, the first, or all) have been added earlier by
\* fault-free sequential ADDs in order of their identifiers, made with the
\* configuration naming "br0"; with none, the state file does not exist yet.
\* The network configuration file the runtime reads now (netconf) is any of
\* Configs, and the runtime hands the same bytes to every invocation.
EarlierSets == {{c \in ContainerIDs : c <= n} : n \in 0..Cardinality(ContainerIDs)}

Rank(c, S) == Cardinality({d \in S : d <= c})

AddedEarlier(S) == [c \in S |-> Rank(c, S)]

Init ==
    /\ binary \in {"basic", "ipam"}
    /\ netconf \in Configs
    /\ \E S \in EarlierSets :
          /\ file = IF S = {} THEN NoFile ELSE Marshal(AddedEarlier(S))
          /\ bridges = IF S = {} THEN {} ELSE {"br0"}
          /\ ports = [h \in IfNames |->
                         IF h <= Cardinality(S) THEN "br0" ELSE NoBridge]
          /\ linkOwner = [h \in IfNames |->
                             IF h <= Cardinality(S)
                             THEN CHOOSE c \in S : Rank(c, S) = h
                             ELSE NoOwner]
          /\ everAttached = {h \in IfNames : h <= Cardinality(S)}
    /\ pc = [p \in Procs |-> "idle"]
    /\ cmd = [p \in Procs |-> "GET"]
    /\ cid = [p \in Procs |-> 1]
    /\ cfg = [p \in Procs |-> BadConfig]
    /\ hostIf = [p \in Procs |-> NoIf]
    /\ mem = [p \in Procs |-> EmptyMap]
    /\ ips = [p \in Procs |-> <<>>]
    /\ calls = [p \in Procs |-> <<>>]
    /\ alone = [p \in Procs |-> TRUE]
    /\ before = [p \in Procs |-> NoFile]
    /\ prev = NoPrev
    /\ started = 0
    /\ faults = 0

\* --------------------------------------------------------------- actions
\* skel.PluginMain: a new process p starts with an empty hostInterfaces map
\* and runs the handler of command k with container c and stdin g up to
\* its first external call, reaching position at. Process slots are
\* interchangeable: the live processes are kept in the lowest slots in the
\* order they started, the new process takes the slot after them, and the
\* records of processes that finished earlier are dropped.
PluginMain(p, k, c, g, at) ==
    LET live   == SortedSeq({q \in Procs : Live(q)})
        old(q) == live[q]
        kept(q) == q <= Len(live)
        first  == Len(live) = 0
    IN
    /\ p = Len(live) + 1
    /\ started < MaxInvocations
    /\ started' = started + 1
    /\ cmd' = [q \in Procs |-> IF q = p THEN k
                               ELSE IF kept(q) THEN cmd[old(q)] ELSE "GET"]
    /\ cid' = [q \in Procs |-> IF q = p THEN c
                               ELSE IF kept(q) THEN cid[old(q)] ELSE 1]
    /\ cfg' = [q \in Procs |-> IF q = p THEN g
                               ELSE IF kept(q) THEN cfg[old(q)] ELSE BadConfig]
    /\ pc' = [q \in Procs |-> IF q = p THEN at
                              ELSE IF kept(q) THEN pc[old(q)] ELSE "idle"]
    /\ hostIf' = [q \in Procs |-> IF kept(q) THEN hostIf[old(q)] ELSE NoIf]
    /\ mem' = [q \in Procs |-> IF kept(q) THEN mem[old(q)] ELSE EmptyMap]
    /\ ips' = [q \in Procs |-> IF kept(q) THEN ips[old(q)] ELSE <<>>]
    /\ calls' = [q \in Procs |-> IF kept(q) THEN calls[old(q)] ELSE <<>>]
    /\ alone' = [q \in Procs |-> IF q = p THEN first ELSE ~kept(q)]
    /\ before' = [q \in Procs |-> IF q = p /\ first THEN file ELSE NoFile]
    /\ prev' = IF /\ first /\ cmd[1] = "ADD" /\ pc[1] # "idle" /\ alone[1]
               THEN Returned(1) ELSE NoPrev
    /\ UNCHANGED <<binary, netconf, file, switchVars, linkVars, faults>>

\* cmdGet: always an error; it looks at none of its arguments, so one
\* container stands for any.
cmdGet(p) ==
    /\ \E q \in Procs : ~Live(q)
    /\ \E c \in {Min(ContainerIDs)} :
          PluginMain(p, "GET", c, netconf, "failed")

\* cmdAdd entry: json.Unmarshal(args.StdinData, config); an undecodable
\* payload returns the error, otherwise createOvsBr is next.
cmdAdd(p) ==
    /\ \E q \in Procs : ~Live(q)
    /\ \E c \in ContainerIDs :
          PluginMain(p, "ADD", c, netconf,
                     IF netconf = BadConfig THEN "failed" ELSE "bridge")

\* cmdDel entry: json.Unmarshal(args.StdinData, config); then the ipam
\* revision calls the delegate, the basic revision goes to the store.
cmdDel(p) ==
    /\ \E q \in Procs : ~Live(q)
    /\ \E c \in ContainerIDs :
          PluginMain(p, "DEL", c, netconf,
                     IF netconf = BadConfig THEN "failed"
                     ELSE IF binary = "ipam" THEN "del_ipam" ELSE "del_load")

\* An external operation fails (within the run's budget of failures), or
\* it does not.
Fault  == faults < MaxFaults /\ faults' = faults + 1
Normal == faults' = faults

\* return err / return nil / panic: the process ends and its memory is gone.
Return(p, how) ==
    /\ pc' = [pc EXCEPT ![p] = how]
    /\ mem' = [mem EXCEPT ![p] = EmptyMap]

Goto(p, at) == pc' = [pc EXCEPT ![p] = at]

\* Mutant of createOvsBr: AddBridge without --may-exist, which reports a
\* bridge that exists already as an error.
createOvsBrNoMayExist(p) ==
    /\ pc[p] = "bridge"
    /\ \/ /\ cfg[p] # EmptyName /\ cfg[p] \notin bridges
          /\ Normal
          /\ bridges' = bridges \cup {cfg[p]}
          /\ calls' = Call(p, "AddBridge", "ok")
          /\ Goto(p, "veth") /\ mem' = mem
       \/ /\ cfg[p] \in bridges
          /\ Normal
          /\ bridges' = bridges
          /\ calls' = Call(p, "AddBridge", "exists")
          /\ Return(p, "failed")
       \/ /\ cfg[p] = EmptyName
          /\ Normal
          /\ bridges' = bridges
          /\ calls' = Call(p, "AddBridge", "badname")
          /\ Return(p, "failed")
       \/ /\ Fault
          /\ bridges' = bridges
          /\ calls' = Call(p, "AddBridge", "err")
          /\ Return(p, "failed")
    /\ UNCHANGED <<file, ports, everAttached, linkVars, argVars, hostIf, ips>>

\* createOvsBr: client.VSwitch.AddBridge(bridgeName); any error returns.
\* AddBridge on a bridge that exists already is not an error (the switch
\* tool is run with --may-exist); the switch tool refuses to create a
\* bridge whose name is the empty string.
createOvsBr(p) ==
    /\ pc[p] = "bridge"
    /\ \/ /\ cfg[p] # EmptyName
          /\ Normal
          /\ bridges' = bridges \cup {cfg[p]}
          /\ calls' = Call(p, "AddBridge", "ok")
          /\ Goto(p, "veth") /\ mem' = mem
       \/ /\ cfg[p] = EmptyName
          /\ Normal
          /\ bridges' = bridges
          /\ calls' = Call(p, "AddBridge", "badname")
          /\ Return(p, "failed")
       \/ /\ Fault
          /\ bridges' = bridges
          /\ calls' = Call(p, "AddBridge", "err")
          /\ Return(p, "failed")
    /\ UNCHANGED <<file, ports, everAttached, linkVars, argVars, hostIf, ips>>

\* ns.GetNS(args.Netns), then createVeth: ip.SetupVeth makes the pair and
\* names the host end with a name no existing link has (names only ever
\* being compared, the lowest free one stands for any). Opening the
\* namespace or creating the pair can fail.
createVeth(p) ==
    /\ pc[p] = "veth"
    /\ \/ \E h \in IfNames :
            /\ Normal
            /\ linkOwner[h] = NoOwner
            /\ \A g \in IfNames : g < h => linkOwner[g] # NoOwner
            /\ linkOwner' = [linkOwner EXCEPT ![h] = cid[p]]
            /\ hostIf' = [hostIf EXCEPT ![p] = h]
            /\ calls' = Call(p, "SetupVeth", "ok")
            /\ Goto(p, "port") /\ mem' = mem
       \/ /\ Fault
          /\ UNCHANGED <<linkOwner, hostIf>>
          /\ \E op \in {"GetNS", "SetupVeth"} : calls' = Call(p, op, "err")
          /\ Return(p, "failed")
    /\ UNCHANGED <<file, switchVars, argVars, ips>>

\* Mutant of addOvsPort: the error of AddPort is dropped, as the errors of
\* the file functions are, and cmdAdd goes on.
addOvsPortErrorDropped(p) ==
    /\ pc[p] = "port"
    /\ \/ /\ Normal
          /\ ports' = [ports EXCEPT ![hostIf[p]] = cfg[p]]
          /\ everAttached' = everAttached \cup {hostIf[p]}
          /\ calls' = Call(p, "AddPort", "ok")
       \/ /\ Fault
          /\ UNCHANGED <<ports, everAttached>>
          /\ calls' = Call(p, "AddPort", "err")
    /\ Goto(p, IF binary = "ipam" THEN "ipam" ELSE "load")
    /\ UNCHANGED <<file, bridges, linkVars, argVars, hostIf, mem, ips>>

\* Mutant of addOvsPort: the store is updated before the port is attached,
\* so a failing AddPort leaves the record behind.
addOvsPortAfterStore(p) ==
    /\ pc[p] = "port"
    /\ \/ /\ Normal
          /\ ports' = [ports EXCEPT ![hostIf[p]] = cfg[p]]
          /\ everAttached' = everAttached \cup {hostIf[p]}
          /\ calls' = Call(p, "AddPort", "ok")
          /\ file' = file
          /\ Goto(p, IF binary = "ipam" THEN "ipam" ELSE "load") /\ mem' = mem
       \/ /\ Fault
          /\ UNCHANGED <<ports, everAttached>>
          /\ calls' = Call(p, "AddPort", "err")
          /\ file' = Marshal(Put(Store(file), cid[p], hostIf[p]))
          /\ Return(p, "failed")
    /\ UNCHANGED <<bridges, linkVars, argVars, hostIf, ips>>

\* addOvsPort: client.VSwitch.AddPort(bridgeName, hostIfName); on success
\* the ipam revision goes on to the delegate, the basic one to the store.
addOvsPort(p) ==
    /\ pc[p] = "port"
    /\ \/ /\ Normal
          /\ ports' = [ports EXCEPT ![hostIf[p]] = cfg[p]]
          /\ everAttached' = everAttached \cup {hostIf[p]}
          /\ calls' = Call(p, "AddPort", "ok")
          /\ Goto(p, IF binary = "ipam" THEN "ipam" ELSE "load") /\ mem' = mem
       \/ /\ Fault
          /\ UNCHANGED <<ports, everAttached>>
          /\ calls' = Call(p, "AddPort", "err")
          /\ Return(p, "failed")
    /\ UNCHANGED <<file, bridges, linkVars, argVars, hostIf, ips>>

\* Results the delegate can return: up to MaxIPs entries, each with an
\* Interface index of its own choosing (nil or an index).
DelegateIPs == UNION {[1..n -> {NilIndex, 1}] : n \in 0..MaxIPs}

\* Mutant of AssociateIPs: the delegate's Interface indices are kept.
AssociateIPsSkipped(r) == r

\* for _, ip := range result.IPs { ip.Interface = current.Int(0) }
AssociateIPs(r) == [i \in 1..Len(r) |-> 0]

\* result.Interfaces = []*current.Interface{containerInterface}
ResultInterfaces == 1

\* Mutant of ExecAdd: a failing delegate makes cmdAdd take the port off the
\* bridge again before it returns the error.
ExecAddRollback(p) ==
    /\ pc[p] = "ipam"
    /\ \/ \E r \in DelegateIPs :
            /\ Len(r) > 0
            /\ Normal
            /\ calls' = Call(p, "ExecAdd", "ok")
            /\ ips' = [ips EXCEPT ![p] = AssociateIPs(r)]
            /\ ports' = ports
            /\ Goto(p, "config") /\ mem' = mem
       \/ /\ Fault
          /\ ips' = ips
          /\ \E res \in {"err", "noip", "badresult"} :
                calls' = Call(p, "ExecAdd", res)
          /\ ports' = [ports EXCEPT ![hostIf[p]] = NoBridge]
          /\ Return(p, "failed")
    /\ UNCHANGED <<file, bridges, everAttached, linkVars, argVars, hostIf>>

\* Mutant of ExecAdd: the len(result.IPs) == 0 check is missing, so a
\* result without IPs goes on to ConfigureIface.
ExecAddNoLenCheck(p) ==
    /\ pc[p] = "ipam"
    /\ \/ \E r \in DelegateIPs :
            /\ Len(r) > 0
            /\ Normal
            /\ calls' = Call(p, "ExecAdd", "ok")
            /\ ips' = [ips EXCEPT ![p] = AssociateIPs(r)]
            /\ Goto(p, "config") /\ mem' = mem
       \/ /\ Fault
          /\ ips' = [ips EXCEPT ![p] = <<>>]
          /\ calls' = Call(p, "ExecAdd", "noip")
          /\ Goto(p, "config") /\ mem' = mem
       \/ /\ Fault
          /\ ips' = ips
          /\ \E res \in {"err", "badresult"} :
                calls' = Call(p, "ExecAdd", res)
          /\ Return(p, "failed")
    /\ UNCHANGED <<file, switchVars, linkVars, argVars, hostIf>>

\* ipam.ExecAdd(config.IPAM.Type, args.StdinData), then the local steps up
\* to the next external call: current.NewResultFromResult (which can fail),
\* the len(result.IPs) == 0 check, and the loop over result.IPs.
ExecAdd(p) ==
    /\ pc[p] = "ipam"
    /\ \/ \E r \in DelegateIPs :
            /\ Len(r) > 0
            /\ Normal
            /\ calls' = Call(p, "ExecAdd", "ok")
            /\ ips' = [ips EXCEPT ![p] = AssociateIPs(r)]
            /\ Goto(p, "config") /\ mem' = mem
       \/ /\ Fault
          /\ ips' = ips
          /\ \E res \in {"err", "noip", "badresult"} :
                calls' = Call(p, "ExecAdd", res)
          /\ Return(p, "failed")
    /\ UNCHANGED <<file, switchVars, linkVars, argVars, hostIf>>

\* netns.Do(ipam.ConfigureIface(containerInterface.Name, result))
ConfigureIface(p) ==
    /\ pc[p] = "config"
    /\ \/ /\ Normal
          /\ calls' = Call(p, "ConfigureIface", "ok")
          /\ Goto(p, "load") /\ mem' = mem
       \/ /\ Fault
          /\ calls' = Call(p, "ConfigureIface", "err")
          /\ Return(p, "failed")
    /\ UNCHANGED <<file, switchVars, linkVars, argVars, hostIf, ips>>

\* readHostInterfacesFromFile: ioutil.ReadFile followed by json.Unmarshal
\* into the map m. A missing file (ReadFile's error) and a failed decode
\* leave m as it is; the callers drop the returned error.
readHostInterfacesFromFile(f, m) ==
    IF ~f.exists THEN [res |-> "absent", m |-> m]
    ELSE [res |-> IF Unmarshal(f, m).err THEN "corrupt" ELSE "ok",
          m   |-> Unmarshal(f, m).m]

\* cmdAdd "Update JSON file": load, then hostInterfaces[id] = name.
AddLoadPut(p) ==
    /\ pc[p] = "load"
    /\ LET o == readHostInterfacesFromFile(file, mem[p])
       IN /\ mem' = [mem EXCEPT ![p] = Put(o.m, cid[p], hostIf[p])]
          /\ calls' = Call(p, "ReadFile", o.res)
    /\ Normal
    /\ Goto(p, "write_open")
    /\ UNCHANGED <<file, switchVars, linkVars, argVars, hostIf, ips>>

\* writeHostInterfacesToFile, first half: json.Marshal, then ioutil.WriteFile
\* opens the file with O_TRUNC. The callers drop the returned error, so a
\* failed open goes straight to the command's successful return.
WriteOpen(p) ==
    /\ pc[p] = "write_open"
    /\ \/ /\ Normal
          /\ file' = TruncatedFile
          /\ calls' = Call(p, "OpenFile", "ok")
          /\ Goto(p, "write_data") /\ mem' = mem
       \/ /\ Fault
          /\ file' = file
          /\ calls' = Call(p, "WriteFile", "err")
          /\ Return(p, "done")
    /\ UNCHANGED <<switchVars, linkVars, argVars, hostIf, ips>>

\* writeHostInterfacesToFile, second half: the bytes are written, or the
\* write fails and leaves the truncated file behind. Either way the command
\* returns success (cmdAdd of the ipam revision prints the result).
WriteData(p) ==
    /\ pc[p] = "write_data"
    /\ \/ /\ Normal
          /\ file' = Marshal(mem[p])
          /\ calls' = Call(p, "WriteFile", "ok")
       \/ /\ Fault
          /\ file' = file
          /\ calls' = Call(p, "WriteFile", "err")
    /\ Return(p, "done")
    /\ UNCHANGED <<switchVars, linkVars, argVars, hostIf, ips>>

\* ipam.ExecDel(config.IPAM.Type, args.StdinData): first step of cmdDel in
\* the ipam revision, before the store is consulted.
ExecDel(p) ==
    /\ pc[p] = "del_ipam"
    /\ \/ /\ Normal
          /\ calls' = Call(p, "ExecDel", "ok")
          /\ Goto(p, "del_load") /\ mem' = mem
       \/ /\ Fault
          /\ calls' = Call(p, "ExecDel", "err")
          /\ Return(p, "failed")
    /\ UNCHANGED <<file, switchVars, linkVars, argVars, hostIf, ips>>

\* cmdDel: load, then hostInterfaces[args.ContainerID]. The basic revision
\* asserts .(string) on the value and panics on the nil of a missing key;
\* the ipam revision returns nil (success) when the value is nil.
DelLoadLookup(p) ==
    /\ pc[p] = "del_load"
    /\ Normal
    /\ LET o == readHostInterfacesFromFile(file, mem[p])
       IN /\ calls' = Call(p, "ReadFile", o.res)
          /\ hostIf' = [hostIf EXCEPT ![p] = Lookup(o.m, cid[p])]
          /\ IF Lookup(o.m, cid[p]) # NoIf
             THEN Goto(p, "del_port") /\ mem' = [mem EXCEPT ![p] = o.m]
             ELSE Return(p, IF binary = "basic" THEN "panicked" ELSE "done")
    /\ UNCHANGED <<file, switchVars, linkVars, argVars, ips>>

\* deleteOvsPort, then delete(hostInterfaces, id). DeletePort on a port the
\* bridge does not hold either reports the missing port or is tolerated by
\* the switch tool; any reported error makes cmdDel return it.
deleteOvsPort(p) ==
    /\ pc[p] = "del_port"
    /\ \/ /\ Normal
          /\ ports' = [ports EXCEPT ![hostIf[p]] =
                          IF @ = cfg[p] THEN NoBridge ELSE @]
          /\ mem' = [mem EXCEPT ![p] = Delete(@, cid[p])]
          /\ calls' = Call(p, "DeletePort", "ok")
          /\ Goto(p, "write_open")
       \/ /\ ports[hostIf[p]] = cfg[p]
          /\ Fault
          /\ ports' = ports
          /\ calls' = Call(p, "DeletePort", "err")
          /\ Return(p, "failed")
       \/ /\ ports[hostIf[p]] # cfg[p]
          /\ Normal
          /\ ports' = ports
          /\ calls' = Call(p, "DeletePort", "noport")
          /\ Return(p, "failed")
    /\ UNCHANGED <<file, bridges, everAttached, linkVars, argVars, hostIf, ips>>

Next ==
    \E p \in Procs :
       \/ cmdGet(p)
       \/ cmdAdd(p)
       \/ cmdDel(p)
       \/ createOvsBr(p)
       \/ createVeth(p)
       \/ addOvsPort(p)
       \/ ExecAdd(p)
       \/ ConfigureIface(p)
       \/ AddLoadPut(p)
       \/ WriteOpen(p)
       \/ WriteData(p)
       \/ ExecDel(p)
       \/ DelLoadLookup(p)
       \/ deleteOvsPort(p)

Spec == Init /\ [][Next]_vars

\* ---------------------------------------------------------------- claims
Finished(p)  == pc[p] \in {"done", "failed", "panicked"}
Quiescent    == \A p \in Procs : ~Live(p)
PortOf(c)    == {h \in IfNames : linkOwner[h] = c /\ ports[h] # NoBridge}
\* No write of the file failed.
FileIOOk(p)  == ~CalledRes(p, "WriteFile", "err")
\* Every read decoded the file (or found none) and every write succeeded.
FileIOClean(p) == FileIOOk(p) /\ ~CalledRes(p, "ReadFile", "corrupt")
\* Between Load and the end of Save.
InLoadSaveSpan(p) == pc[p] \in {"del_port", "write_open", "write_data"}

\* C1 (as claimed): a DEL for a container that has no entry in the store,
\* run alone with a decodable config, returns success, calls neither
\* DeletePort nor the delegate's ExecDel, and leaves the file as it was.
C1_DelUnknownIsNoop ==
    \A p \in Procs :
        ( /\ cmd[p] = "DEL" /\ Finished(p) /\ alone[p]
          /\ cfg[p] # BadConfig
          /\ ~HasEntry(before[p], cid[p]) )
        => ( /\ pc[p] = "done"
             /\ ~Called(p, "DeletePort")
             /\ ~Called(p, "ExecDel")
             /\ file = before[p] )

\* C2 (as claimed): two ADDs for distinct containers that overlapped and
\* both returned success, with every file read and write of theirs
\* succeeding, leave both entries in the store, each with its own ADD's
\* host interface.
C2_ConcurrentAddsKeepBoth ==
    \A p, q \in Procs :
        ( /\ p # q
          /\ cmd[p] = "ADD" /\ cmd[q] = "ADD"
          /\ pc[p] = "done" /\ pc[q] = "done"
          /\ cid[p] # cid[q]
          /\ FileIOClean(p) /\ FileIOClean(q) )
        => ( /\ Lookup(Store(file), cid[p]) = hostIf[p]
             /\ Lookup(Store(file), cid[q]) = hostIf[q] )

C4_AddPersistsOwnEntry ==
    \A p \in Procs :
        ( /\ cmd[p] = "ADD" /\ pc[p] = "done" /\ alone[p] /\ FileIOOk(p) )
        => ( /\ DOMAIN Store(file) = DOMAIN Store(before[p]) \cup {cid[p]}
             /\ Store(file)[cid[p]] = hostIf[p]
             /\ \A c \in DOMAIN Store(before[p]) \ {cid[p]} :
                    Store(file)[c] = Store(before[p])[c]
             /\ hostIf[p] \in IfNames
             /\ linkOwner[hostIf[p]] = cid[p]
             /\ ports[hostIf[p]] = cfg[p] )

\* C4 witness: such an ADD returned where the store held an entry of another
\* container before, and that entry is still there.
C4_Witness ==
    \E p \in Procs :
        /\ cmd[p] = "ADD" /\ pc[p] = "done" /\ alone[p] /\ FileIOOk(p)
        /\ \E c \in ContainerIDs \ {cid[p]} :
              /\ HasEntry(before[p], c)
              /\ Lookup(Store(file), c) = Lookup(Store(before[p]), c)
        /\ Lookup(Store(file), cid[p]) = hostIf[p]

\* C5 (as claimed): once a DEL for c has returned success, with no other
\* invocation on record being for c, the store has no entry for c.
C5_NoEntryAfterDel ==
    \A p \in Procs :
        ( /\ cmd[p] = "DEL" /\ pc[p] = "done"
          /\ \A q \in Procs \ {p} : pc[q] # "idle" => cid[q] # cid[p] )
        => ~HasEntry(file, cid[p])

\* C6 (as claimed): a command whose write of the state file failed does not
\* return success.
C6_SaveFailureFailsCommand ==
    \A p \in Procs : CalledRes(p, "WriteFile", "err") => pc[p] # "done"

\* C7 (as claimed): a command whose load found an undecodable file has
\* ended at that point without success and without opening the file for
\* writing.
C7_CorruptStateSurfaces ==
    \A p \in Procs :
        CalledRes(p, "ReadFile", "corrupt")
        => (pc[p] \in {"failed", "panicked"} /\ ~Called(p, "OpenFile"))

\* C8 (as claimed): a DEL whose DeletePort reported the port as absent does
\* not abort; it goes on to remove the entry and save the store.
C8_AbsentPortTolerated ==
    \A p \in Procs :
        CalledRes(p, "DeletePort", "noport")
        => pc[p] \in {"write_open", "write_data", "done"}

\* C9 (as claimed): no two invocations are between their Load and the end
\* of their Save at the same time.
C9_LoadSaveExclusive ==
    \A p, q \in Procs : p # q => ~(InLoadSaveSpan(p) /\ InLoadSaveSpan(q))

\* C10: an ADD that failed has neither read nor opened nor written the
\* state file, and when it ran alone the file is exactly as it was before.
C10_FailedAddLeavesStore ==
    \A p \in Procs :
        (cmd[p] = "ADD" /\ pc[p] = "failed")
        => ( /\ ~Called(p, "ReadFile")
             /\ ~Called(p, "OpenFile")
             /\ ~Called(p, "WriteFile")
             /\ alone[p] => file = before[p] )

\* C10 witness: an ADD failed after its port was attached, on a host whose
\* store already held an entry, and the container it was for has none.
C10_Witness ==
    \E p \in Procs :
        /\ cmd[p] = "ADD" /\ pc[p] = "failed" /\ alone[p]
        /\ CalledRes(p, "AddPort", "ok")
        /\ DOMAIN Store(file) # {}
        /\ ~HasEntry(file, cid[p])

\* The latest invocation p ran alone, right after an invocation of command k
\* for the same container that ran alone and ended as how.
Follows(p, k, how) ==
    /\ alone[p]
    /\ prev.cmd = k /\ prev.pc = how /\ prev.cid = cid[p]

\* C11: in a run without faults, a successful ADD for c followed by a
\* successful DEL for c removes from the bridge the port the ADD attached
\* and leaves the store without key c, every other container's entry being
\* what it was before the ADD.
C11_AddThenDelRoundTrip ==
    \A p \in Procs :
        ( /\ faults = 0
          /\ cmd[p] = "DEL" /\ pc[p] = "done"
          /\ Follows(p, "ADD", "done") )
        => ( /\ prev.hostIf \in IfNames
             /\ hostIf[p] = prev.hostIf
             /\ CalledRes(p, "DeletePort", "ok")
             /\ ports[prev.hostIf] = NoBridge
             /\ ~HasEntry(file, cid[p])
             /\ \A d \in ContainerIDs \ {cid[p]} :
                    Lookup(Store(file), d) = Lookup(Store(prev.before), d) )

\* C11 witness: such a DEL has returned on a host whose store held another
\* container's entry before the ADD, and that entry is still there.
C11_Witness ==
    \E p \in Procs :
        /\ faults = 0
        /\ cmd[p] = "DEL" /\ pc[p] = "done"
        /\ Follows(p, "ADD", "done")
        /\ ports[prev.hostIf] = NoBridge
        /\ \E d \in ContainerIDs \ {cid[p]} :
              /\ HasEntry(prev.before, d)
              /\ Lookup(Store(file), d) = Lookup(Store(prev.before), d)

\* cmdAdd of the ipam revision has returned types.PrintResult(result, ...):
\* the Result is on stdout (the basic revision prints none).
ResultEmitted(p) == binary = "ipam" /\ cmd[p] = "ADD" /\ pc[p] = "done"

\* C12: every Result a successful ADD emits has at least one IP entry, and
\* every IP entry's interface index i satisfies 0 <= i < number of
\* interfaces in the Result.
C12_ResultIPsValid ==
    \A p \in Procs :
        ResultEmitted(p)
        => ( /\ Len(ips[p]) >= 1
             /\ \A i \in 1..Len(ips[p]) :
                    0 <= ips[p][i] /\ ips[p][i] < ResultInterfaces )

\* C12 witness: a Result has been emitted, carrying as many IP entries as
\* the delegate ever returns.
C12_Witness ==
    \E p \in Procs :
        /\ ResultEmitted(p)
        /\ Len(ips[p]) = MaxIPs
        /\ CalledRes(p, "ConfigureIface", "ok")

\* C13: when the delegate returns a result with zero IPs, ADD fails and
\* never reaches ConfigureIface: the container interface is not configured,
\* the state file is neither read nor written, and no Result is emitted.
C13_NoIPFailsAdd ==
    \A p \in Procs :
        CalledRes(p, "ExecAdd", "noip")
        => ( /\ pc[p] = "failed"
             /\ ~Called(p, "ConfigureIface")
             /\ ~Called(p, "ReadFile")
             /\ ~Called(p, "OpenFile")
             /\ ~Called(p, "WriteFile")
             /\ ~ResultEmitted(p)
             /\ alone[p] => file = before[p] )

\* C13 witness: an ADD whose delegate returned no IP has failed, after its
\* port was attached.
C13_Witness ==
    \E p \in Procs :
        /\ cmd[p] = "ADD" /\ pc[p] = "failed"
        /\ CalledRes(p, "ExecAdd", "noip")
        /\ CalledRes(p, "AddPort", "ok")

\* C14 (as claimed): an ADD or DEL whose payload cannot be decoded, or whose
\* publicBridgeName is absent or empty, issues no switch, kernel, delegate
\* or file operation at all, and ends as failed.
C14_MalformedConfigNoEffects ==
    \A p \in Procs :
        ( /\ cmd[p] \in {"ADD", "DEL"} /\ pc[p] # "idle"
          /\ cfg[p] \in {BadConfig, EmptyName} )
        => ( /\ calls[p] = <<>>
             /\ Finished(p) => pc[p] = "failed" )

After(p, ops, op) ==
    \A i \in 1..Len(calls[p]) :
        calls[p][i].op \in ops => \E j \in 1..(i - 1) : calls[p][j].op = op

\* C17 (as claimed): within one DEL the store is loaded and looked up first,
\* the delegate's release comes only after the lookup found an entry, the
\* port is detached only after the release, and the store is saved only
\* after the detach.
C17_DelStepOrder ==
    \A p \in Procs :
        cmd[p] = "DEL"
        => ( /\ After(p, {"ExecDel"}, "ReadFile")
             /\ After(p, {"DeletePort"}, "ExecDel")
             /\ After(p, {"OpenFile", "WriteFile"}, "DeletePort") )

\* The external operations of an ADD come in the order of the steps: bridge,
\* namespace and veth pair, port, (delegate, interface configuration,) load,
\* save.
AddCallOrder(p) ==
    /\ After(p, {"GetNS", "SetupVeth"}, "AddBridge")
    /\ After(p, {"AddPort"}, "SetupVeth")
    /\ After(p, {"ExecAdd"}, "AddPort")
    /\ After(p, {"ConfigureIface"}, "ExecAdd")
    /\ After(p, {"ReadFile"},
             IF binary = "ipam" THEN "ConfigureIface" ELSE "AddPort")
    /\ After(p, {"OpenFile", "WriteFile"}, "ReadFile")

\* The outcome of an external operation is a success (a load that finds no
\* file is one: the store is empty).
Succeeded(c) == c.res \in {"ok", "absent"}

\* C18 (as claimed): within one ADD the steps come in the claimed order,
\* each step starts only after the previous one succeeded, and the ADD
\* ends in success (emitting its Result) only after the store step
\* succeeded.
C18_AddStepOrder ==
    \A p \in Procs :
        cmd[p] = "ADD"
        => ( /\ AddCallOrder(p)
             /\ \A i \in 1..(Len(calls[p]) - 1) : Succeeded(calls[p][i])
             /\ pc[p] = "done"
                => /\ CalledRes(p, "WriteFile", "ok")
                   /\ \A i \in 1..Len(calls[p]) : Succeeded(calls[p][i]) )

KeysDistinct(f) ==
    \A i, j \in 1..Len(f.pairs) : f.pairs[i][1] = f.pairs[j][1] => i = j

\* C20: a successful ADD for a container that has a store entry already
\* (run alone, its save not failing) replaces the recorded host interface
\* by the new one: the file has one entry for the container, naming the new
\* interface, and no key names the interface recorded before. In a run
\* without faults, the DEL for the container that follows detaches the
\* newly recorded interface only: the earlier one stays on its bridge.
C20_SecondAddReplaces ==
    /\ \A p \in Procs :
          ( /\ cmd[p] = "ADD" /\ pc[p] = "done" /\ alone[p] /\ FileIOOk(p)
            /\ HasEntry(before[p], cid[p]) )
          => ( /\ KeysDistinct(file)
               /\ Lookup(Store(file), cid[p]) = hostIf[p]
               /\ hostIf[p] # Store(before[p])[cid[p]]
               /\ \A c \in DOMAIN Store(file) :
                      Store(file)[c] # Store(before[p])[cid[p]] )
    /\ \A p \in Procs :
          ( /\ faults = 0
            /\ cmd[p] = "DEL" /\ pc[p] = "done"
            /\ Follows(p, "ADD", "done")
            /\ HasEntry(prev.before, cid[p]) )
          => ( /\ hostIf[p] = prev.hostIf
               /\ Cardinality({i \in 1..Len(calls[p]) :
                                  calls[p][i].op = "DeletePort"}) = 1
               /\ ports[prev.hostIf] = NoBridge
               /\ Store(prev.before)[cid[p]] # prev.hostIf
               /\ ports[Store(prev.before)[cid[p]]] # NoBridge
               /\ ~HasEntry(file, cid[p]) )

\* C20 witness: a container that had an entry was added again and then
\* deleted; the interface of the second ADD is off the bridge, the one
\* recorded before it is still a port, and the store has no entry left.
C20_Witness ==
    \E p \in Procs :
        /\ faults = 0
        /\ cmd[p] = "DEL" /\ pc[p] = "done"
        /\ Follows(p, "ADD", "done")
        /\ HasEntry(prev.before, cid[p])
        /\ ports[prev.hostIf] = NoBridge
        /\ ports[Store(prev.before)[cid[p]]] # NoBridge
        /\ ~HasEntry(file, cid[p])
====
